---- MODULE Spec2Model ----
(***************************************************************************)
(* Model of the ledger store of backend.py: the `transactions` table       *)
(* created by DatabaseConnection._create_tables and the operations of      *)
(* FinanceManager that read and write it.                                  *)
(*                                                                         *)
(* The TEXT values that the code compares (the `date` column) are compared *)
(* character code by character code, the way SQLite's BINARY collation     *)
(* compares TEXT.  An optional Python argument is a tuple of length 0      *)
(* (None) or 1 (<<value>>).                                                *)
(*                                                                         *)
(* Specifications:                                                         *)
(*   Spec            one caller adding, listing, totalling, updating and   *)
(*                   deleting records                                      *)
(*   SpecQuery       filtered listings and monthly summaries               *)
(*   SpecStorage     storage faults and the connections left open          *)
(*   SpecUpload      the bulk upload of frontend.py                        *)
(*   SpecConcurrent  a second caller working on the same database file     *)
(***************************************************************************)
EXTENDS Integers, Sequences, FiniteSets, TLC

\* ------------------------------------------------------------------ bounds
\* Largest rowid the model lets the store assign.
MaxId == 2
\* Largest reading of the wall clock, in seconds since the first INSERT.
MaxClock == 1
\* Largest number of connections the model lets stay open at a time.
MaxOpen == 2
\* Largest number of data rows in an uploaded file.
MaxRows == 2
\* Largest number of calls the first caller completes while one call of the
\* second caller is in progress.
MaxOverlap == 1

\* ------------------------------------------------------------ input values
None == <<>>
Some(x) == <<x>>
IsNone(o) == o = <<>>
Val(o) == o[1]

Date0101 == "2024-01-01"
Date0115 == "2024-01-15"
Dates == {Date0101, Date0115}
Date0116 == "2024-01-16"
Date1130 == "2024-11-30"
Date1201 == "2024-12-01"
Date1231 == "2024-12-31"
Date250101 == "2025-01-01"
\* The character codes of the date strings ('-' is 45, '0' is 48).
Chars(d) ==
    CASE d = "2024-01-01" -> <<50, 48, 50, 52, 45, 48, 49, 45, 48, 49>>
      [] d = "2024-01-15" -> <<50, 48, 50, 52, 45, 48, 49, 45, 49, 53>>
      [] d = "2024-01-16" -> <<50, 48, 50, 52, 45, 48, 49, 45, 49, 54>>
      [] d = "2024-02-01" -> <<50, 48, 50, 52, 45, 48, 50, 45, 48, 49>>
      [] d = "2024-11-30" -> <<50, 48, 50, 52, 45, 49, 49, 45, 51, 48>>
      [] d = "2024-12-01" -> <<50, 48, 50, 52, 45, 49, 50, 45, 48, 49>>
      [] d = "2024-12-31" -> <<50, 48, 50, 52, 45, 49, 50, 45, 51, 49>>
      [] d = "2025-01-01" -> <<50, 48, 50, 53, 45, 48, 49, 45, 48, 49>>
      [] d = "" -> <<>>
\* Amounts that the REAL column stores exactly; no sign is enforced.
Amounts == {0, 50}
ValidTypes == {"income", "expense"}
Types == ValidTypes \cup {"Income"}
Remarks == {"", "Lunch"}
Ids == 1 .. MaxId
\* Values update_transaction is called with: the falsy amount 0 and the
\* empty remarks among them.
UpdateAmounts == {0}
UpdateTypes == {"expense", "Income"}
UpdateRemarks == {""}
UpdateDates == {Date0101}

\* The records the filtered queries are tried on: (amount, type, remarks,
\* date), two in the middle of January 2024 and four around the ends of
\* December 2024.
Entries ==
    {<<1000, "income", "Salary", Date0115>>,
     <<50, "expense", "Lunch", Date0116>>,
     <<50, "income", "", Date1130>>,
     <<1000, "expense", "", Date1201>>,
     <<50, "income", "", Date1231>>,
     <<50, "expense", "", Date250101>>}
\* Filters of get_transactions: absent, the empty string, a value.
StartDates == {None, Some(""), Some(Date0116)}
EndDates == {None, Some(""), Some(Date0115), Some(Date0116)}
TypeFilters == {None, Some(""), Some("income"), Some("expense")}
\* Arguments of get_monthly_summary.
Years == {2024}
Months == {1, 12}

Opt(S) == {None} \cup {Some(x) : x \in S}

VARIABLES
    transactions,     \* the rows of table `transactions`
    sqlite_sequence,  \* AUTOINCREMENT bookkeeping: largest rowid ever used
    now,              \* the wall clock as the latest INSERT read it, in
                      \* seconds since the first INSERT
    assigned,         \* history: every id an INSERT has ever been given
    last,             \* the call the caller is looking at: [op, args, ret, err]
    connections,      \* sqlite3 connections opened and not yet closed
    other             \* the call a second caller has in progress

vars == <<transactions, sqlite_sequence, now, assigned, last, connections,
          other>>

\* ----------------------------------------------------------- text helpers
\* memcmp order of two TEXT values (BINARY collation).
RECURSIVE StrLessFrom(_, _, _)
StrLessFrom(a, b, i) ==
    IF i > Len(a) THEN i <= Len(b)
    ELSE IF i > Len(b) THEN FALSE
    ELSE IF a[i] # b[i] THEN a[i] < b[i]
    ELSE StrLessFrom(a, b, i + 1)

StrLess(a, b) == StrLessFrom(Chars(a), Chars(b), 1)
StrLeq(a, b) == a = b \/ StrLess(a, b)

\* ------------------------------------------------------------- the clock
\* The clock never runs backwards: an INSERT reads it in the second the
\* previous INSERT read it or in a later one.  Only the order of the
\* readings is ever used, so one later second stands for all of them, and
\* the first INSERT reads second 0.
ClockReadings ==
    IF sqlite_sequence = 0 THEN {0}
    ELSE {t \in now .. now + 1 : t <= MaxClock}

\* CURRENT_TIMESTAMP is 'YYYY-MM-DD HH:MM:SS': the clock read in whole
\* seconds by the running INSERT, so every INSERT within one second gets
\* the same value.
CURRENT_TIMESTAMP == now'

\* datetime.now().strftime("%Y-%m-%d"): the bounded clock stays within one day.
Today == Date0115

\* datetime.now().year and datetime.now().month on that day.
ThisYear == 2024
ThisMonth == 1

\* ------------------------------------------------------------- the table
\* Column constraints of CREATE TABLE: amount, type and date NOT NULL and
\* CHECK(type IN ('income', 'expense')).  Arguments are optional values.
TableConstraints(amount, type, date) ==
    /\ ~IsNone(amount)
    /\ ~IsNone(type)
    /\ Val(type) \in {"income", "expense"}
    /\ ~IsNone(date)

RowIds == {r.id : r \in transactions}

RECURSIVE MaxOf(_)
MaxOf(S) ==
    IF S = {} THEN 0
    ELSE LET x == CHOOSE y \in S : TRUE
             m == MaxOf(S \ {x})
         IN IF x > m THEN x ELSE m

\* INTEGER PRIMARY KEY without AUTOINCREMENT: one more than the largest
\* rowid now in the table.
NextRowid_reuse == MaxOf(RowIds) + 1

\* INTEGER PRIMARY KEY AUTOINCREMENT: one more than the largest rowid that
\* has ever existed in the table.
NextRowid ==
    LET top == MaxOf(RowIds)
    IN (IF sqlite_sequence > top THEN sqlite_sequence ELSE top) + 1

\* No call is in progress: the caller is back in its event loop.
Idle == [op |-> "idle", args |-> <<>>, ret |-> FALSE, err |-> "none"]

\* The connections are not counted.
Untracked == "untracked"

\* The table just created and empty, no call made yet.
Created ==
    /\ transactions = {}
    /\ sqlite_sequence = 0
    /\ now = 0
    /\ assigned = {}
    /\ last = Idle

\* The store as one caller sees it: no second caller, the connections left
\* out of the picture.
Init ==
    /\ Created
    /\ connections = Untracked
    /\ other = Idle

\* A call returns `ret` to its caller; `err` is the exception named in the
\* diagnostic line the except clause prints ("none" when nothing was raised).
Returns(op, args, ret, err) ==
    last' = [op |-> op, args |-> args, ret |-> ret, err |-> err]

\* The caller's handler finishes and drops the value it was given.
Return ==
    /\ last # Idle
    /\ last' = Idle
    /\ UNCHANGED <<transactions, sqlite_sequence, now, assigned>>

\* ------------------------------------------------------- add_transaction
\* The INSERT with the date always taken from the clock.
NewRow_today(amount, type, remarks, date) ==
    [id |-> NextRowid, amount |-> amount, type |-> type, remarks |-> remarks,
     date |-> Today, created_at |-> CURRENT_TIMESTAMP]

\* The row INSERT INTO transactions (amount, type, remarks, date) stores:
\* the four values as passed (the date defaulted to today when None), the
\* id and created_at filled in by the table's defaults.
NewRow(amount, type, remarks, date) ==
    [id |-> NextRowid, amount |-> amount, type |-> type, remarks |-> remarks,
     date |-> IF IsNone(date) THEN Today ELSE Val(date),
     created_at |-> CURRENT_TIMESTAMP]

\* add_transaction without the membership test, on a table without the
\* CHECK clause.
add_transaction_unchecked(amount, type, remarks, date) ==
    LET args == [amount |-> amount, type |-> type, remarks |-> remarks,
                 date |-> date]
        row == NewRow(amount, type, remarks, date)
    IN /\ last = Idle
       /\ NextRowid <= MaxId
       /\ now' \in ClockReadings
       /\ transactions' = transactions \cup {row}
       /\ sqlite_sequence' = row.id
       /\ assigned' = assigned \cup {row.id}
       /\ Returns("add_transaction", args, TRUE, "none")

add_transaction(amount, type, remarks, date) ==
    LET args == [amount |-> amount, type |-> type, remarks |-> remarks,
                 date |-> date]
        row == NewRow(amount, type, remarks, date)
    IN /\ last = Idle
       /\ IF type \notin {"income", "expense"}
          THEN /\ Returns("add_transaction", args, FALSE, "ValueError")
               /\ UNCHANGED <<transactions, sqlite_sequence, now, assigned>>
          ELSE IF ~TableConstraints(Some(amount), Some(type),
                                    Some(IF IsNone(date) THEN Today
                                         ELSE Val(date)))
          THEN /\ Returns("add_transaction", args, FALSE, "IntegrityError")
               /\ UNCHANGED <<transactions, sqlite_sequence, now, assigned>>
          ELSE /\ NextRowid <= MaxId
               /\ now' \in ClockReadings
               /\ transactions' = transactions \cup {row}
               /\ sqlite_sequence' = row.id
               /\ assigned' = assigned \cup {row.id}
               /\ Returns("add_transaction", args, TRUE, "none")

\* ------------------------------------------------------ get_transactions
\* Python truthiness of an optional string argument: None and the empty
\* string (`empty` in the argument's representation) are falsy.
Truthy(o, empty) == ~IsNone(o) /\ Val(o) # empty

\* The WHERE clause with `date > ?` for the start date.
Matches_exclusive(r, start_date, end_date, type) ==
    /\ Truthy(start_date, "") => StrLess(Val(start_date), r.date)
    /\ Truthy(end_date, "") => StrLeq(r.date, Val(end_date))
    /\ Truthy(type, "") => r.type = Val(type)

\* The WHERE clause assembled from the supplied filters.
Matches(r, start_date, end_date, type) ==
    /\ Truthy(start_date, "") => StrLeq(Val(start_date), r.date)
    /\ Truthy(end_date, "") => StrLeq(r.date, Val(end_date))
    /\ Truthy(type, "") => r.type = Val(type)

\* ORDER BY date DESC, created_at DESC: row a may come before row b.
OrderedBefore(a, b) ==
    \/ StrLess(b.date, a.date)
    \/ a.date = b.date /\ a.created_at >= b.created_at

\* Every row order the ORDER BY clause allows for the row set S; rows that
\* tie on both keys may come out either way.
Orderings(S) ==
    {s \in [1 .. Cardinality(S) -> S] :
        /\ \A i, j \in 1 .. Cardinality(S) : i # j => s[i] # s[j]
        /\ \A i, j \in 1 .. Cardinality(S) : i < j => OrderedBefore(s[i], s[j])}

get_transactions(start_date, end_date, type) ==
    LET args == [start_date |-> start_date, end_date |-> end_date,
                 type |-> type]
        results == {r \in transactions : Matches(r, start_date, end_date, type)}
    IN /\ last = Idle
       /\ \E rows \in Orderings(results) :
            Returns("get_transactions", args, rows, "none")
       /\ UNCHANGED <<transactions, sqlite_sequence, now, assigned>>

\* ------------------------------------------------------------ aggregates
RECURSIVE SumAmount(_)
SumAmount(S) ==
    IF S = {} THEN 0
    ELSE LET r == CHOOSE x \in S : TRUE
         IN r.amount + SumAmount(S \ {r})

\* SUM(amount) with the WHERE type = ? clause left out.
SqlSum_unfiltered(t) ==
    IF transactions = {} THEN None ELSE Some(SumAmount(transactions))

\* SELECT SUM(amount) FROM transactions WHERE type = t: NULL over no rows.
SqlSum(t) ==
    LET S == {r \in transactions : r.type = t}
    IN IF S = {} THEN None ELSE Some(SumAmount(S))

COALESCE(x, y) == IF IsNone(x) THEN y ELSE Val(x)

\* get_balance adding the two totals instead of subtracting.
BalanceValue_added ==
    LET total_income == COALESCE(SqlSum("income"), 0)
        total_expenses == COALESCE(SqlSum("expense"), 0)
    IN total_income + total_expenses

\* The value get_balance returns.
BalanceValue ==
    LET total_income == COALESCE(SqlSum("income"), 0)
        total_expenses == COALESCE(SqlSum("expense"), 0)
    IN total_income - total_expenses

\* The values get_income_total and get_expense_total return.
IncomeTotalValue == COALESCE(SqlSum("income"), 0)

ExpenseTotalValue == COALESCE(SqlSum("expense"), 0)

get_balance ==
    /\ last = Idle
    /\ Returns("get_balance", <<>>, BalanceValue, "none")
    /\ UNCHANGED <<transactions, sqlite_sequence, now, assigned>>

get_income_total ==
    /\ last = Idle
    /\ Returns("get_income_total", <<>>, IncomeTotalValue, "none")
    /\ UNCHANGED <<transactions, sqlite_sequence, now, assigned>>

get_expense_total ==
    /\ last = Idle
    /\ Returns("get_expense_total", <<>>, ExpenseTotalValue, "none")
    /\ UNCHANGED <<transactions, sqlite_sequence, now, assigned>>

\* ---------------------------------------------------- get_monthly_summary
\* The decimal digits of a natural number, as character codes.
RECURSIVE Digits(_)
Digits(n) ==
    IF n < 10 THEN <<48 + n>> ELSE Append(Digits(n \div 10), 48 + (n % 10))

RECURSIVE ZeroPad(_, _)
ZeroPad(text, width) ==
    IF Len(text) >= width THEN text ELSE ZeroPad(<<48>> \o text, width)

\* f"{n:04d}" and f"{n:02d}" for n >= 0.
Format0d(n, width) == ZeroPad(Digits(n), width)

\* f"{year:04d}-{month:02d}-01"
FirstDay(year, month) ==
    Format0d(year, 4) \o <<45>> \o Format0d(month, 2) \o <<45, 48, 49>>

\* The two bounds get_monthly_summary passes to its queries.
MonthBounds(year, month) ==
    [start_date |-> FirstDay(year, month),
     end_date |-> IF month = 12 THEN FirstDay(year + 1, 1)
                  ELSE FirstDay(year, month + 1)]

\* The monthly query with `date <= ?` for the end date.
MonthlySum_closed(t, start_date, end_date) ==
    LET S == {r \in transactions :
                /\ r.type = t
                /\ ~StrLessFrom(Chars(r.date), start_date, 1)
                /\ ~StrLessFrom(end_date, Chars(r.date), 1)}
    IN COALESCE(IF S = {} THEN None ELSE Some(SumAmount(S)), 0)

\* SELECT COALESCE(SUM(amount), 0) FROM transactions
\* WHERE type = t AND date >= start_date AND date < end_date
MonthlySum(t, start_date, end_date) ==
    LET S == {r \in transactions :
                /\ r.type = t
                /\ ~StrLessFrom(Chars(r.date), start_date, 1)
                /\ StrLessFrom(Chars(r.date), end_date, 1)}
    IN COALESCE(IF S = {} THEN None ELSE Some(SumAmount(S)), 0)

\* The dict get_monthly_summary returns when nothing is raised.
MonthlySummaryValue(year, month) ==
    LET y == IF IsNone(year) THEN ThisYear ELSE Val(year)
        m == IF IsNone(month) THEN ThisMonth ELSE Val(month)
        bounds == MonthBounds(y, m)
        monthly_income == MonthlySum("income", bounds.start_date,
                                     bounds.end_date)
        monthly_expenses == MonthlySum("expense", bounds.start_date,
                                       bounds.end_date)
    IN [monthly_income |-> monthly_income,
        monthly_expenses |-> monthly_expenses,
        monthly_balance |-> monthly_income - monthly_expenses,
        month |-> m,
        year |-> y]

get_monthly_summary(year, month) ==
    /\ last = Idle
    /\ Returns("get_monthly_summary", [year |-> year, month |-> month],
               MonthlySummaryValue(year, month), "none")
    /\ UNCHANGED <<transactions, sqlite_sequence, now, assigned>>

\* ---------------------------------------------------- delete_transaction
\* delete_transaction returning True whenever the statement ran.
delete_transaction_true(transaction_id) ==
    LET args == [transaction_id |-> transaction_id]
        hit == {r \in transactions : r.id = transaction_id}
    IN /\ last = Idle
       /\ transactions' = transactions \ hit
       /\ Returns("delete_transaction", args, TRUE, "none")
       /\ UNCHANGED <<sqlite_sequence, now, assigned>>

delete_transaction(transaction_id) ==
    LET args == [transaction_id |-> transaction_id]
        hit == {r \in transactions : r.id = transaction_id}
        rowcount == Cardinality(hit)
    IN /\ last = Idle
       /\ transactions' = transactions \ hit
       /\ Returns("delete_transaction", args, rowcount > 0, "none")
       /\ UNCHANGED <<sqlite_sequence, now, assigned>>

\* ---------------------------------------------------- update_transaction
\* The SET clause with `if amount:` style tests: a falsy argument (0, the
\* empty string) is taken for an absent one.
SetColumns_truthy(r, amount, type, remarks, date) ==
    [r EXCEPT !.amount = IF IsNone(amount) \/ Val(amount) = 0
                         THEN @ ELSE Val(amount),
              !.type = IF IsNone(type) \/ Val(type) = ""
                       THEN @ ELSE Val(type),
              !.remarks = IF IsNone(remarks) \/ Val(remarks) = ""
                          THEN @ ELSE Val(remarks),
              !.date = IF IsNone(date) \/ Val(date) = ""
                       THEN @ ELSE Val(date)]

\* The SET clause built from `updates`, applied to one row: a column is
\* assigned exactly when its argument is not None.
SetColumns(r, amount, type, remarks, date) ==
    [r EXCEPT !.amount = IF IsNone(amount) THEN @ ELSE Val(amount),
              !.type = IF IsNone(type) THEN @ ELSE Val(type),
              !.remarks = IF IsNone(remarks) THEN @ ELSE Val(remarks),
              !.date = IF IsNone(date) THEN @ ELSE Val(date)]

\* update_transaction writing each column in a statement of its own, so
\* that the amount is already stored when the type is found invalid.
update_transaction_partial(transaction_id, amount, type, remarks, date) ==
    LET args == [transaction_id |-> transaction_id, amount |-> amount,
                 type |-> type, remarks |-> remarks, date |-> date]
        updates == {c \in {"amount", "type", "remarks", "date"} :
                       ~IsNone(args[c])}
        hit == {r \in transactions : r.id = transaction_id}
        rowcount == Cardinality(hit)
    IN /\ last = Idle
       /\ IF ~IsNone(type) /\ Val(type) \notin {"income", "expense"}
          THEN /\ transactions' = (transactions \ hit) \cup
                      {SetColumns(r, amount, None, None, None) : r \in hit}
               /\ Returns("update_transaction", args, FALSE, "ValueError")
               /\ UNCHANGED <<sqlite_sequence, now, assigned>>
          ELSE IF updates = {}
          THEN /\ Returns("update_transaction", args, FALSE, "none")
               /\ UNCHANGED <<transactions, sqlite_sequence, now, assigned>>
          ELSE /\ transactions' = (transactions \ hit) \cup
                      {SetColumns(r, amount, type, remarks, date) : r \in hit}
               /\ Returns("update_transaction", args, rowcount > 0, "none")
               /\ UNCHANGED <<sqlite_sequence, now, assigned>>

\* update_transaction returning True whenever the UPDATE ran.
update_transaction_true(transaction_id, amount, type, remarks, date) ==
    LET args == [transaction_id |-> transaction_id, amount |-> amount,
                 type |-> type, remarks |-> remarks, date |-> date]
        updates == {c \in {"amount", "type", "remarks", "date"} :
                       ~IsNone(args[c])}
        hit == {r \in transactions : r.id = transaction_id}
    IN /\ last = Idle
       /\ IF ~IsNone(type) /\ Val(type) \notin {"income", "expense"}
          THEN /\ Returns("update_transaction", args, FALSE, "ValueError")
               /\ UNCHANGED <<transactions, sqlite_sequence, now, assigned>>
          ELSE IF updates = {}
          THEN /\ Returns("update_transaction", args, FALSE, "none")
               /\ UNCHANGED <<transactions, sqlite_sequence, now, assigned>>
          ELSE /\ transactions' = (transactions \ hit) \cup
                      {SetColumns(r, amount, type, remarks, date) : r \in hit}
               /\ Returns("update_transaction", args, TRUE, "none")
               /\ UNCHANGED <<sqlite_sequence, now, assigned>>

\* update_transaction without the membership test, on a table without the
\* CHECK clause.
update_transaction_unchecked(transaction_id, amount, type, remarks, date) ==
    LET args == [transaction_id |-> transaction_id, amount |-> amount,
                 type |-> type, remarks |-> remarks, date |-> date]
        updates == {c \in {"amount", "type", "remarks", "date"} :
                       ~IsNone(args[c])}
        hit == {r \in transactions : r.id = transaction_id}
        rowcount == Cardinality(hit)
    IN /\ last = Idle
       /\ IF updates = {}
          THEN /\ Returns("update_transaction", args, FALSE, "none")
               /\ UNCHANGED <<transactions, sqlite_sequence, now, assigned>>
          ELSE /\ transactions' = (transactions \ hit) \cup
                      {SetColumns(r, amount, type, remarks, date) : r \in hit}
               /\ Returns("update_transaction", args, rowcount > 0, "none")
               /\ UNCHANGED <<sqlite_sequence, now, assigned>>

update_transaction(transaction_id, amount, type, remarks, date) ==
    LET args == [transaction_id |-> transaction_id, amount |-> amount,
                 type |-> type, remarks |-> remarks, date |-> date]
        updates == {c \in {"amount", "type", "remarks", "date"} :
                       ~IsNone(args[c])}
        hit == {r \in transactions : r.id = transaction_id}
        rowcount == Cardinality(hit)
        changed == {SetColumns(r, amount, type, remarks, date) : r \in hit}
    IN /\ last = Idle
       /\ IF ~IsNone(type) /\ Val(type) \notin {"income", "expense"}
          THEN /\ Returns("update_transaction", args, FALSE, "ValueError")
               /\ UNCHANGED <<transactions, sqlite_sequence, now, assigned>>
          ELSE IF updates = {}
          THEN /\ Returns("update_transaction", args, FALSE, "none")
               /\ UNCHANGED <<transactions, sqlite_sequence, now, assigned>>
          ELSE IF \E r \in changed :
                   ~TableConstraints(Some(r.amount), Some(r.type), Some(r.date))
          THEN /\ Returns("update_transaction", args, FALSE, "IntegrityError")
               /\ UNCHANGED <<transactions, sqlite_sequence, now, assigned>>
          ELSE /\ transactions' = (transactions \ hit) \cup changed
               /\ Returns("update_transaction", args, rowcount > 0, "none")
               /\ UNCHANGED <<sqlite_sequence, now, assigned>>

\* ------------------------------------------------------------------ Next
\* One caller, one call at a time, the connections not counted.
Alone == UNCHANGED <<connections, other>>

Next ==
    \/ Return /\ Alone
    \/ \E amount \in Amounts, type \in Types, remarks \in Remarks,
          date \in Opt(Dates) :
            add_transaction(amount, type, remarks, date) /\ Alone
    \/ \E start_date \in {None, Some(Date0115)},
          end_date \in {None, Some(Date0101)},
          type \in {None, Some("income")} :
            get_transactions(start_date, end_date, type) /\ Alone
    \/ get_balance /\ Alone
    \/ get_income_total /\ Alone
    \/ get_expense_total /\ Alone
    \/ \E transaction_id \in Ids :
            delete_transaction(transaction_id) /\ Alone
    \/ \E transaction_id \in Ids, amount \in Opt(UpdateAmounts),
          type \in Opt(UpdateTypes), remarks \in Opt(UpdateRemarks),
          date \in Opt(UpdateDates) :
            update_transaction(transaction_id, amount, type, remarks, date)
            /\ Alone

Spec == Init /\ [][Next]_vars

\* ------------------------------------------------------ filtered queries
\* The caller records entries and asks for filtered listings and monthly
\* summaries.
NextQuery ==
    \/ Return /\ Alone
    \/ \E e \in Entries :
            add_transaction(e[1], e[2], e[3], Some(e[4])) /\ Alone
    \/ \E start_date \in StartDates, end_date \in EndDates,
          type \in TypeFilters :
            get_transactions(start_date, end_date, type) /\ Alone
    \/ \E year \in Opt(Years), month \in Opt(Months) :
            get_monthly_summary(year, month) /\ Alone

SpecQuery == Init /\ [][NextQuery]_vars

\* ------------------------------------------- storage faults, connections
\* An operation gets as far as _get_connection unless it raises or returns
\* before its `with` statement: add_transaction on an invalid type,
\* update_transaction on an invalid type or without any field.
ReachesStorage(op, args) ==
    CASE op = "add_transaction" -> args.type \in {"income", "expense"}
      [] op = "update_transaction" ->
            /\ ~(~IsNone(args.type)
                   /\ Val(args.type) \notin {"income", "expense"})
            /\ \E c \in {"amount", "type", "remarks", "date"} :
                  ~IsNone(args[c])
      [] OTHER -> TRUE

\* The empty dict {} and the empty list [].
EmptyDict == <<>>
EmptyList == <<>>

\* What the `except Exception` clause of each operation returns.
FailureValue(op) ==
    CASE op \in {"add_transaction", "update_transaction",
                 "delete_transaction"} -> FALSE
      [] op = "get_transactions" -> EmptyList
      [] op \in {"get_balance", "get_income_total", "get_expense_total"} -> 0
      [] op = "get_monthly_summary" -> EmptyDict

\* sqlite3.connect or a statement raises sqlite3.OperationalError (the file
\* cannot be opened, the disk fails, the database is locked): leaving the
\* `with` block rolls back whatever the call had written, the except clause
\* prints the error and returns the operation's failure value.
Fails(op, args) ==
    /\ last = Idle
    /\ ReachesStorage(op, args)
    /\ Returns(op, args, FailureValue(op), "OperationalError")
    /\ UNCHANGED <<transactions, sqlite_sequence, now, assigned>>

\* The store right after FinanceManager(db_path): _create_tables has opened
\* a connection in a `with` block, which commits and does not close; the
\* connection object is unreferenced and is closed when it is collected,
\* which may or may not have happened yet.
InitStorage ==
    /\ Created
    /\ connections \in {0, 1}
    /\ other = Idle

\* A call returns having opened n connections: `with sqlite3.connect(...)`
\* commits or rolls back on exit and leaves the connection open.
Opens(n) ==
    /\ connections + n <= MaxOpen
    /\ connections' = connections + n
    /\ UNCHANGED other

\* The number of connections the call `call` has opened.
Opened(call) == IF ReachesStorage(call.op, call.args) THEN 1 ELSE 0

\* The garbage collector finalizes an unreferenced connection object, which
\* closes it.
Collect ==
    /\ connections > 0
    /\ connections' = connections - 1
    /\ UNCHANGED <<transactions, sqlite_sequence, now, assigned, last, other>>

\* The calls the storage faults are tried on.
StorageCalls ==
    {<<"add_transaction",
       [amount |-> 50, type |-> "income", remarks |-> "", date |-> None]>>,
     <<"get_transactions",
       [start_date |-> None, end_date |-> None, type |-> None]>>,
     <<"get_balance", <<>>>>,
     <<"get_income_total", <<>>>>,
     <<"get_expense_total", <<>>>>,
     <<"get_monthly_summary", [year |-> Some(2024), month |-> Some(12)]>>,
     <<"get_monthly_summary", [year |-> None, month |-> None]>>,
     <<"delete_transaction", [transaction_id |-> 1]>>,
     <<"update_transaction",
       [transaction_id |-> 1, amount |-> Some(0), type |-> None,
        remarks |-> None, date |-> None]>>}

NextStorage ==
    \/ Return /\ Alone
    \/ Collect
    \/ \E type \in {"income", "Income"} :
            add_transaction(50, type, "", None) /\ Opens(Opened(last'))
    \/ get_transactions(None, None, None) /\ Opens(Opened(last'))
    \/ get_balance /\ Opens(Opened(last'))
    \/ get_income_total /\ Opens(Opened(last'))
    \/ get_expense_total /\ Opens(Opened(last'))
    \/ \E year \in Opt(Years), month \in Opt(Months) :
            get_monthly_summary(year, month) /\ Opens(Opened(last'))
    \/ \E transaction_id \in Ids :
            delete_transaction(transaction_id) /\ Opens(Opened(last'))
    \/ \E transaction_id \in Ids, amount \in Opt(UpdateAmounts),
          type \in Opt(UpdateTypes) :
            update_transaction(transaction_id, amount, type, None, None)
            /\ Opens(Opened(last'))
    \/ \E call \in StorageCalls, n \in {0, 1} :
            Fails(call[1], call[2]) /\ Opens(n)

SpecStorage == InitStorage /\ [][NextStorage]_vars

\* ------------------------------------------------------------ bulk upload
\* The data rows a CSV file may hold, as csv.reader yields them: a row the
\* store accepts, a row with a type the store refuses, a row whose amount
\* is not a number, and a row that is too short.
FileRows ==
    {<<"50", " Income ", " Lunch ", "2024/01/01">>,
     <<"50", "transfer", "", "2024-01-15">>,
     <<"abc", "income", "", "2024-01-15">>,
     <<"50">>}

RECURSIVE SeqsUpTo(_, _)
SeqsUpTo(S, n) ==
    IF n = 0 THEN {<<>>}
    ELSE LET shorter == SeqsUpTo(S, n - 1)
         IN shorter \cup {Append(q, x) : q \in shorter, x \in S}

\* The files: the header line skipped, up to MaxRows data rows.
Files == SeqsUpTo(FileRows, MaxRows)

\* float(text): None where float raises ValueError.
ParseFloat(text) ==
    CASE text = "50" -> Some(50)
      [] text = "abc" -> None

\* text.strip().lower()
StripLower(text) ==
    CASE text = " Income " -> "income"
      [] text = "income" -> "income"
      [] text = "transfer" -> "transfer"

\* text.strip()
Strip(text) ==
    CASE text = " Lunch " -> "Lunch"
      [] text = "" -> ""

\* str(date).replace("/", "-")
DashDate(text) ==
    CASE text = "2024/01/01" -> "2024-01-01"
      [] text = "2024-01-15" -> "2024-01-15"

\* The clock readings open to an INSERT that follows one made at second t
\* (seq is the largest rowid used so far, 0 before the first INSERT).
ReadingsAfter(seq, t) ==
    IF seq = 0 THEN {0} ELSE {u \in t .. t + 1 : u <= MaxClock}

\* add_transaction as one step of the upload loop, on the store
\* st = [table, seq, now, count, ok], reading the clock at second t: the
\* store it leaves.  Its return value is not looked at by the loop.
AddedTo(st, amount, type, remarks, date, t) ==
    IF type \notin {"income", "expense"} THEN st
    ELSE IF t \notin ReadingsAfter(st.seq, st.now)
    THEN [st EXCEPT !.ok = FALSE]
    ELSE LET top == MaxOf({r.id : r \in st.table})
             id == (IF st.seq > top THEN st.seq ELSE top) + 1
             row == [id |-> id, amount |-> amount, type |-> type,
                     remarks |-> remarks, date |-> date, created_at |-> t]
         IN [st EXCEPT !.table = @ \cup {row}, !.seq = id, !.now = t]

\* The loop `for row in reader` over the rows left, ticks giving the clock
\* reading of each row's INSERT.
RECURSIVE Import(_, _, _)
Import(st, rows, ticks) ==
    IF rows = <<>> THEN st
    ELSE LET row == Head(rows)
             amount == ParseFloat(row[1])
             after ==
                 IF Len(row) < 4 THEN st
                 ELSE IF IsNone(amount) THEN st
                 ELSE [AddedTo(st, Val(amount), StripLower(row[2]),
                               Strip(row[3]), DashDate(row[4]), Head(ticks))
                          EXCEPT !.count = @ + 1]
         IN Import(after, Tail(rows), Tail(ticks))

\* FinanceApp.bulk_upload_excel on a CSV file that is read without an
\* exception: ret is the number the "Success" box shows.  The table and the
\* labels it refreshes afterwards only read the store.
bulk_upload_excel(file) ==
    /\ last = Idle
    /\ \E ticks \in [1 .. Len(file) -> 0 .. MaxClock] :
          LET end == Import([table |-> transactions, seq |-> sqlite_sequence,
                             now |-> now, count |-> 0, ok |-> TRUE],
                            file, ticks)
          IN /\ end.ok
             /\ end.seq <= MaxId
             /\ transactions' = end.table
             /\ sqlite_sequence' = end.seq
             /\ now' = end.now
             /\ assigned' = assigned \cup
                               {r.id : r \in end.table \ transactions}
             /\ Returns("bulk_upload_excel", file, end.count, "none")

NextUpload ==
    \/ Return /\ Alone
    \/ \E file \in Files : bulk_upload_excel(file) /\ Alone
    \/ \E transaction_id \in Ids :
            delete_transaction(transaction_id) /\ Alone

SpecUpload == Init /\ [][NextUpload]_vars

\* ------------------------------------------------------------ two callers
\* A second caller works on the same database file through connections of
\* its own.  SQLite runs each statement as a whole under the database lock;
\* the sqlite3 module opens a transaction only in front of INSERT, UPDATE
\* and DELETE, so every SELECT of get_balance and get_monthly_summary is a
\* read of its own and another connection may commit between two of them.
\* `other` is [pc, op, args, local, ret, before, writes, seen]:
\*   pc       "idle", "first" (the first step of the call is done) or "done"
\*   local    the value the first step left in a local variable
\*   before   history: the record the call is about, as the call found it
\*   writes   history: the calls the first caller completed meanwhile
\*   seen     history: the answers of every state the store has been in
\*            between the call's first step and its return
Waiting ==
    [pc |-> "idle", op |-> "idle", args |-> <<>>, local |-> 0, ret |-> FALSE,
     before |-> None, writes |-> <<>>, seen |-> {}]

\* What get_balance and get_monthly_summary() answer on the current state.
Answers ==
    [get_balance |-> BalanceValue,
     get_monthly_summary |-> MonthlySummaryValue(None, None)]

InitConcurrent ==
    /\ Created
    /\ connections = Untracked
    /\ other = Waiting

\* A call of the first caller completes while the second caller looks on.
Witnessed ==
    /\ other.pc = "first" => Len(other.writes) < MaxOverlap
    /\ other' = IF other.pc = "first"
                THEN [other EXCEPT !.seen = @ \cup {Answers},
                                   !.writes = Append(@, last')]
                ELSE other
    /\ UNCHANGED connections

\* The second caller's step leaves the first caller's view alone.
Aside == UNCHANGED <<last, connections>>

\* get_balance, first SELECT: total_income.
get_balance_income ==
    /\ other.pc = "idle"
    /\ other' = [other EXCEPT !.pc = "first", !.op = "get_balance",
                              !.args = <<>>, !.local = IncomeTotalValue,
                              !.before = None, !.writes = <<>>,
                              !.seen = {Answers}]
    /\ UNCHANGED <<transactions, sqlite_sequence, now, assigned>>

\* get_balance, second SELECT: total_expenses, and the return.
get_balance_expenses ==
    /\ other.pc = "first"
    /\ other.op = "get_balance"
    /\ other' = [other EXCEPT !.pc = "done",
                              !.ret = other.local - ExpenseTotalValue,
                              !.seen = @ \cup {Answers}]
    /\ UNCHANGED <<transactions, sqlite_sequence, now, assigned>>

\* get_monthly_summary(), first SELECT: monthly_income.
get_monthly_summary_income ==
    LET bounds == MonthBounds(ThisYear, ThisMonth)
    IN /\ other.pc = "idle"
       /\ other' = [other EXCEPT
                       !.pc = "first", !.op = "get_monthly_summary",
                       !.args = [year |-> None, month |-> None],
                       !.local = MonthlySum("income", bounds.start_date,
                                            bounds.end_date),
                       !.before = None, !.writes = <<>>,
                       !.seen = {Answers}]
       /\ UNCHANGED <<transactions, sqlite_sequence, now, assigned>>

\* get_monthly_summary(), second SELECT: monthly_expenses, and the return.
get_monthly_summary_expenses ==
    LET bounds == MonthBounds(ThisYear, ThisMonth)
        monthly_income == other.local
        monthly_expenses == MonthlySum("expense", bounds.start_date,
                                       bounds.end_date)
    IN /\ other.pc = "first"
       /\ other.op = "get_monthly_summary"
       /\ other' = [other EXCEPT
                       !.pc = "done",
                       !.ret = [monthly_income |-> monthly_income,
                                monthly_expenses |-> monthly_expenses,
                                monthly_balance |->
                                    monthly_income - monthly_expenses,
                                month |-> ThisMonth,
                                year |-> ThisYear],
                       !.seen = @ \cup {Answers}]
       /\ UNCHANGED <<transactions, sqlite_sequence, now, assigned>>

\* update_transaction up to its `with` statement: the type is checked and
\* the SET clause is built from the arguments; the store is not read.
update_transaction_prepare(transaction_id, amount, type, remarks, date) ==
    LET args == [transaction_id |-> transaction_id, amount |-> amount,
                 type |-> type, remarks |-> remarks, date |-> date]
        hit == {r \in transactions : r.id = transaction_id}
    IN /\ other.pc = "idle"
       /\ other' = [other EXCEPT
                       !.pc = IF ReachesStorage("update_transaction", args)
                              THEN "first" ELSE "done",
                       !.op = "update_transaction",
                       !.args = args,
                       !.ret = FALSE,
                       !.before = IF hit = {} THEN None
                                  ELSE Some(CHOOSE r \in hit : TRUE),
                       !.writes = <<>>,
                       !.seen = {Answers}]
       /\ UNCHANGED <<transactions, sqlite_sequence, now, assigned>>

\* The UPDATE writing back the record as the call found it, with the
\* supplied columns changed.
update_transaction_execute_stale ==
    LET a == other.args
        hit == {r \in transactions : r.id = a.transaction_id}
        rowcount == Cardinality(hit)
        changed == {SetColumns(Val(other.before), a.amount, a.type,
                               a.remarks, a.date) : r \in hit}
    IN /\ other.pc = "first"
       /\ other.op = "update_transaction"
       /\ rowcount > 0 => ~IsNone(other.before)
       /\ transactions' = (transactions \ hit) \cup changed
       /\ other' = [other EXCEPT !.pc = "done", !.ret = rowcount > 0]
       /\ UNCHANGED <<sqlite_sequence, now, assigned>>

\* update_transaction from its `with` statement on: the UPDATE statement,
\* the commit and the return.
update_transaction_execute ==
    LET a == other.args
        hit == {r \in transactions : r.id = a.transaction_id}
        rowcount == Cardinality(hit)
        changed == {SetColumns(r, a.amount, a.type, a.remarks, a.date) :
                       r \in hit}
    IN /\ other.pc = "first"
       /\ other.op = "update_transaction"
       /\ IF \E r \in changed :
               ~TableConstraints(Some(r.amount), Some(r.type), Some(r.date))
          THEN /\ other' = [other EXCEPT !.pc = "done", !.ret = FALSE]
               /\ UNCHANGED <<transactions, sqlite_sequence, now, assigned>>
          ELSE /\ transactions' = (transactions \ hit) \cup changed
               /\ other' = [other EXCEPT !.pc = "done", !.ret = rowcount > 0]
               /\ UNCHANGED <<sqlite_sequence, now, assigned>>

\* The second caller drops the value it was given.
OtherReturn ==
    /\ other.pc = "done"
    /\ other' = Waiting
    /\ UNCHANGED <<transactions, sqlite_sequence, now, assigned>>

NextConcurrent ==
    \/ Return /\ Alone
    \/ \E type \in ValidTypes :
            add_transaction(50, type, "", None) /\ Witnessed
    \/ delete_transaction(1) /\ Witnessed
    \/ \E amount \in Opt(UpdateAmounts) :
            update_transaction(1, amount, Some("expense"), None, None)
            /\ Witnessed
    \/ get_balance_income /\ Aside
    \/ get_balance_expenses /\ Aside
    \/ get_monthly_summary_income /\ Aside
    \/ get_monthly_summary_expenses /\ Aside
    \/ \E remarks \in Opt({"Lunch"}) :
            update_transaction_prepare(1, None, Some("income"), remarks,
                                       None) /\ Aside
    \/ update_transaction_execute /\ Aside
    \/ OtherReturn /\ Aside

SpecConcurrent == InitConcurrent /\ [][NextConcurrent]_vars

\* ------------------------------------------------------------ properties

\* Sum of `amount` over the rows of kind k, taken row id by row id.
RECURSIVE KindSumUpTo(_, _)
KindSumUpTo(k, n) ==
    IF n = 0 THEN 0
    ELSE LET S == {r \in transactions : r.id = n /\ r.type = k}
         IN KindSumUpTo(k, n - 1) + (IF S = {} THEN 0 ELSE SumAmount(S))

KindSum(k) == KindSumUpTo(k, MaxOf(RowIds))

\* C1: whatever calls came before, the value get_balance returns equals
\* the income total minus the expense total of the same store state.
C1_BalanceIsIncomeMinusExpense ==
    last.op = "get_balance" => last.ret = IncomeTotalValue - ExpenseTotalValue

\* get_balance has answered over a store holding income and expense rows
\* with non-zero amounts.
C1_Witness ==
    /\ last.op = "get_balance"
    /\ IncomeTotalValue > 0
    /\ ExpenseTotalValue > 0

\* C2: get_balance returns the sum of all income amounts minus the sum of
\* all expense amounts over the whole table and 0 over the empty table;
\* get_income_total and get_expense_total return the sum of their kind,
\* 0 when there is no row of that kind.
C2_AggregatesAreKindSums ==
    /\ last.op = "get_balance" =>
          /\ last.ret = KindSum("income") - KindSum("expense")
          /\ transactions = {} => last.ret = 0
    /\ last.op = "get_income_total" =>
          /\ last.ret = KindSum("income")
          /\ (\A r \in transactions : r.type # "income") => last.ret = 0
    /\ last.op = "get_expense_total" =>
          /\ last.ret = KindSum("expense")
          /\ (\A r \in transactions : r.type # "expense") => last.ret = 0

\* get_income_total has answered over a store that holds a non-zero
\* expense row next to a non-zero income row.
C2_Witness ==
    /\ last.op = "get_income_total"
    /\ last.ret > 0
    /\ \E r \in transactions : r.type = "expense" /\ r.amount > 0

\* What an unfiltered get_transactions may return in the current state.
UnfilteredResults ==
    Orderings({r \in transactions : Matches(r, None, None, None)})

\* The number of positions of the sequence rows that hold a row like r in
\* amount, type, remarks and date.
Occurrences(rows, a) ==
    Cardinality({i \in DOMAIN rows :
        /\ rows[i].amount = a.amount
        /\ rows[i].type = a.type
        /\ rows[i].remarks = a.remarks
        /\ rows[i].date = a.date
        /\ rows[i].id = a.id})

\* C3: right after add_transaction returned True, every result an
\* unfiltered get_transactions can give holds the new record exactly once,
\* with the amount, type, remarks and date that were passed in, and holds
\* every record that was there before, unchanged.
C3_InsertThenQuery ==
    [][(last'.op = "add_transaction" /\ last'.ret = TRUE) =>
         \E id \in RowIds' \ RowIds :
            LET a == last'.args
                want == [id |-> id, amount |-> a.amount, type |-> a.type,
                         remarks |-> a.remarks,
                         date |-> IF IsNone(a.date) THEN Today ELSE Val(a.date)]
            IN \A rows \in UnfilteredResults' :
                  /\ Occurrences(rows, want) = 1
                  /\ Cardinality({i \in DOMAIN rows : rows[i].id = id}) = 1
                  /\ Len(rows) = Cardinality(transactions) + 1
                  /\ \A r \in transactions :
                        Cardinality({i \in DOMAIN rows : rows[i] = r}) = 1]_vars

\* A second record has been added with an explicit date that is not today,
\* next to a record that was already there.
C3_Witness ==
    /\ last.op = "add_transaction"
    /\ last.ret = TRUE
    /\ last.args.date = Some(Date0101)
    /\ Cardinality(transactions) = 2

\* C4: add_transaction with a type other than exactly 'income' or
\* 'expense' returns False, adds no row and uses up no id.
C4_InvalidKindRejected ==
    [][(last'.op = "add_transaction"
           /\ last'.args.type \notin {"income", "expense"}) =>
         /\ last'.ret = FALSE
         /\ transactions' = transactions
         /\ sqlite_sequence' = sqlite_sequence
         /\ NextRowid' = NextRowid]_vars

\* An insert of type 'Income' has been refused on a store that holds a row.
C4_Witness ==
    /\ last.op = "add_transaction"
    /\ last.args.type = "Income"
    /\ last.ret = FALSE
    /\ transactions # {}

\* The row with the given id in a table, and in the stored table.
RowIn(table, id) == CHOOSE r \in table : r.id = id

RowOf(id) == RowIn(transactions, id)

\* C5: ids are unique among the stored records; a newly inserted record
\* gets an id greater than every id assigned before, deleted ones included;
\* no call changes the id under which an existing record is stored.
C5_IdsUniqueFreshImmutable ==
    /\ [](\A r, q \in transactions : r.id = q.id => r = q)
    /\ [][(\A id \in RowIds' \ RowIds :
               /\ last'.op = "add_transaction"
               /\ \A old \in assigned \cup RowIds : id > old)
           /\ (last'.op # "delete_transaction" => RowIds \subseteq RowIds')
           /\ (\A id \in RowIds \cap RowIds' :
                  RowOf(id)'.created_at = RowOf(id).created_at)]_vars

\* A record has been added after the record with the largest id was
\* deleted.
C5_Witness ==
    /\ last.op = "add_transaction"
    /\ last.ret = TRUE
    /\ \E id \in assigned \ RowIds : \A r \in transactions : r.id > id

\* C6: delete_transaction of an id that is not stored returns False and
\* leaves the table as it is; of a stored id it returns True and removes
\* exactly that record; a deleted id stays absent, so that deleting it
\* again returns False.
C6_Delete ==
    [][(last'.op = "delete_transaction" =>
            LET id == last'.args.transaction_id
            IN /\ id \notin RowIds =>
                    last'.ret = FALSE /\ transactions' = transactions
               /\ id \in RowIds =>
                    /\ last'.ret = TRUE
                    /\ transactions' = {r \in transactions : r.id # id}
                    /\ \A rows \in UnfilteredResults' :
                          \A i \in DOMAIN rows : rows[i].id # id)
       /\ (\A gone \in assigned \ RowIds : gone \notin RowIds')]_vars

\* A stored record has been deleted while another one stays.
C6_Witness ==
    /\ last.op = "delete_transaction"
    /\ last.ret = TRUE
    /\ last.args.transaction_id \in assigned \ RowIds
    /\ transactions # {}

\* C7: update_transaction with an invalid type returns False and leaves
\* the table as it is, whatever other fields the call supplies.
C7_InvalidKindUpdatesNothing ==
    [][(/\ last'.op = "update_transaction"
        /\ ~IsNone(last'.args.type)
        /\ Val(last'.args.type) \notin {"income", "expense"}) =>
          /\ last'.ret = FALSE
          /\ transactions' = transactions]_vars

\* An update of a stored record with type 'Income' and a new amount,
\* remarks and date has been refused.
C7_Witness ==
    /\ last.op = "update_transaction"
    /\ last.args.type = Some("Income")
    /\ last.args.amount = Some(0)
    /\ last.args.remarks = Some("")
    /\ last.args.date = Some(Date0101)
    /\ last.args.transaction_id \in RowIds
    /\ RowOf(last.args.transaction_id).amount # 0
    /\ last.ret = FALSE

\* C8: update_transaction returns True exactly when a field is supplied,
\* the supplied type (if any) is valid and the id is stored; with no field
\* supplied or the id not stored it returns False, nothing is raised on the
\* way, and the table is left as it is.
C8_UpdateResult ==
    [][last'.op = "update_transaction" =>
         LET a == last'.args
             supplied == \E c \in {"amount", "type", "remarks", "date"} :
                            ~IsNone(a[c])
             valid == IsNone(a.type) \/ Val(a.type) \in {"income", "expense"}
             found == a.transaction_id \in RowIds
         IN /\ last'.ret = (supplied /\ valid /\ found)
            /\ (~supplied \/ ~found) =>
                  /\ last'.ret = FALSE
                  /\ transactions' = transactions
                  /\ valid => last'.err = "none"]_vars

\* An update that supplies a field has found no record with its id, next
\* to a stored record.
C8_Witness ==
    /\ last.op = "update_transaction"
    /\ ~IsNone(last.args.amount)
    /\ last.args.transaction_id \notin RowIds
    /\ last.ret = FALSE
    /\ last.err = "none"
    /\ transactions # {}

\* C9: update_transaction that returns True sets the supplied fields of
\* the record with the given id to the supplied values (amount 0 and empty
\* remarks included), keeps its other fields, its id and its created_at,
\* and keeps every other record.
C9_UpdateFrame ==
    [][(last'.op = "update_transaction" /\ last'.ret = TRUE) =>
         LET a == last'.args
             id == a.transaction_id
         IN /\ id \in RowIds /\ id \in RowIds'
            /\ Cardinality({r \in transactions' : r.id = id}) = 1
            /\ LET old == RowOf(id)
                   new == RowIn(transactions', id)
               IN /\ new.amount =
                        IF IsNone(a.amount) THEN old.amount ELSE Val(a.amount)
                  /\ new.type =
                        IF IsNone(a.type) THEN old.type ELSE Val(a.type)
                  /\ new.remarks =
                        IF IsNone(a.remarks) THEN old.remarks
                        ELSE Val(a.remarks)
                  /\ new.date =
                        IF IsNone(a.date) THEN old.date ELSE Val(a.date)
                  /\ new.created_at = old.created_at
            /\ {r \in transactions' : r.id # id}
                  = {r \in transactions : r.id # id}]_vars

\* An update has set the amount of a record to 0 and its remarks to the
\* empty string, leaving type and date alone, with another record stored.
C9_Witness ==
    /\ last.op = "update_transaction"
    /\ last.ret = TRUE
    /\ last.args.amount = Some(0)
    /\ last.args.remarks = Some("")
    /\ IsNone(last.args.type)
    /\ IsNone(last.args.date)
    /\ RowOf(last.args.transaction_id).date = Date0115
    /\ Cardinality(transactions) = 2

\* C10: get_transactions returns its records by date descending and,
\* among records of one date, the later inserted record (the one with the
\* larger id) before the earlier inserted one, however close in time the
\* two inserts were.
C10_LaterInsertedFirst ==
    last.op = "get_transactions" =>
        \A i, j \in DOMAIN last.ret :
            i < j =>
               /\ ~StrLess(last.ret[i].date, last.ret[j].date)
               /\ last.ret[i].date = last.ret[j].date =>
                     last.ret[i].id > last.ret[j].id

\* C14: in every reachable state, whatever add_transaction and
\* update_transaction calls came before and whatever type they were given,
\* every stored record has type exactly 'income' or 'expense'.
C14_StoredKindsValid ==
    \A r \in transactions : r.type \in {"income", "expense"}

\* An update that supplies only the type 'Income' has been refused for a
\* stored record, with two records stored.
C14_Witness ==
    /\ last.op = "update_transaction"
    /\ last.args.type = Some("Income")
    /\ IsNone(last.args.amount)
    /\ IsNone(last.args.remarks)
    /\ IsNone(last.args.date)
    /\ last.args.transaction_id \in RowIds
    /\ last.err = "ValueError"
    /\ Cardinality(transactions) = 2

\* C11 as stated: get_transactions returns, each once, exactly the stored
\* records that satisfy every condition it was given (date >= start_date,
\* date <= end_date, type equal), a condition counting as given whenever
\* its argument is not None; an absent condition restricts nothing, and no
\* match gives the empty list without an error.
C11_QueryExactlyMatching ==
    last.op = "get_transactions" =>
        LET a == last.args
            want == {r \in transactions :
                        /\ ~IsNone(a.start_date) =>
                              StrLeq(Val(a.start_date), r.date)
                        /\ ~IsNone(a.end_date) =>
                              StrLeq(r.date, Val(a.end_date))
                        /\ ~IsNone(a.type) => r.type = Val(a.type)}
        IN /\ last.err = "none"
           /\ Len(last.ret) = Cardinality(want)
           /\ {last.ret[i] : i \in DOMAIN last.ret} = want

\* C11, amended: get_transactions returns, each once, exactly the stored
\* records that satisfy every condition whose argument is neither None nor
\* the empty string (date >= start_date, date <= end_date, both inclusive,
\* type equal); an argument that is None or empty restricts nothing, and no
\* match gives the empty list without an error.
C11_QueryNonEmptyConditions ==
    last.op = "get_transactions" =>
        LET a == last.args
            given(o) == ~IsNone(o) /\ Val(o) # ""
            want == {r \in transactions :
                        /\ given(a.start_date) =>
                              StrLeq(Val(a.start_date), r.date)
                        /\ given(a.end_date) =>
                              StrLeq(r.date, Val(a.end_date))
                        /\ given(a.type) => r.type = Val(a.type)}
        IN /\ last.err = "none"
           /\ Len(last.ret) = Cardinality(want)
           /\ {last.ret[i] : i \in DOMAIN last.ret} = want
           /\ want = {} => last.ret = <<>>

\* After the salary of 2024-01-15 and the lunch of 2024-01-16 were recorded,
\* get_transactions(start_date = '2024-01-16') has returned the lunch record
\* alone.
C11_Witness ==
    /\ last.op = "get_transactions"
    /\ last.args = [start_date |-> Some(Date0116), end_date |-> None,
                    type |-> None]
    /\ \E r \in transactions : r.remarks = "Salary" /\ r.date = Date0115
    /\ Len(last.ret) = 1
    /\ last.ret[1].remarks = "Lunch"
    /\ last.ret[1].amount = 50

\* The first day of a month and of the month after it, written out.
MonthInterval(year, month) ==
    CASE year = 2024 /\ month = 1 -> <<"2024-01-01", "2024-02-01">>
      [] year = 2024 /\ month = 12 -> <<"2024-12-01", "2025-01-01">>

\* C12: get_monthly_summary(year, month) returns as monthly_income and
\* monthly_expenses the sums per kind over exactly the records dated from
\* the first day of the month up to, not including, the first day of the
\* next month (2025-01-01 for December 2024), as monthly_balance their
\* difference, and the year and month it was asked for; with no record in
\* the interval the three sums are 0 and nothing is raised.
C12_MonthlySummary ==
    last.op = "get_monthly_summary" =>
        LET y == IF IsNone(last.args.year) THEN ThisYear
                 ELSE Val(last.args.year)
            m == IF IsNone(last.args.month) THEN ThisMonth
                 ELSE Val(last.args.month)
            within == {r \in transactions :
                          /\ StrLeq(MonthInterval(y, m)[1], r.date)
                          /\ StrLess(r.date, MonthInterval(y, m)[2])}
            income == SumAmount({r \in within : r.type = "income"})
            expense == SumAmount({r \in within : r.type = "expense"})
        IN /\ last.err = "none"
           /\ last.ret.monthly_income = income
           /\ last.ret.monthly_expenses = expense
           /\ last.ret.monthly_balance = income - expense
           /\ last.ret.year = y
           /\ last.ret.month = m
           /\ within = {} =>
                 /\ last.ret.monthly_income = 0
                 /\ last.ret.monthly_expenses = 0
                 /\ last.ret.monthly_balance = 0

\* get_monthly_summary(2024, 12) has counted the income of 2024-12-31 and
\* left out the expense of 2025-01-01.
C12_Witness ==
    /\ last.op = "get_monthly_summary"
    /\ last.args = [year |-> Some(2024), month |-> Some(12)]
    /\ \E r \in transactions : r.date = Date1231 /\ r.type = "income"
    /\ \E r \in transactions : r.date = Date250101 /\ r.type = "expense"
    /\ last.ret.monthly_income = 50
    /\ last.ret.monthly_expenses = 0

\* C13: when the storage raises during an operation, nothing reaches the
\* caller but the operation's failure value: False from add_transaction,
\* update_transaction and delete_transaction, the empty list from
\* get_transactions, 0 from get_balance, get_income_total and
\* get_expense_total, and from get_monthly_summary the summary with
\* monthly_income, monthly_expenses and monthly_balance 0 and its year and
\* month.
C13_FailureValues ==
    last.err = "OperationalError" =>
        /\ last.op \in {"add_transaction", "update_transaction",
                         "delete_transaction"} => last.ret = FALSE
        /\ last.op = "get_transactions" => last.ret = <<>>
        /\ last.op \in {"get_balance", "get_income_total",
                         "get_expense_total"} => last.ret = 0
        /\ last.op = "get_monthly_summary" =>
              /\ DOMAIN last.ret = {"monthly_income", "monthly_expenses",
                                    "monthly_balance", "month", "year"}
              /\ last.ret.monthly_income = 0
              /\ last.ret.monthly_expenses = 0
              /\ last.ret.monthly_balance = 0
              /\ last.ret.year = IF IsNone(last.args.year) THEN ThisYear
                                 ELSE Val(last.args.year)
              /\ last.ret.month = IF IsNone(last.args.month) THEN ThisMonth
                                  ELSE Val(last.args.month)

\* C15: every operation has closed the connection it opened by the time it
\* returns, whether it succeeded or failed, and so has the construction of
\* the store: no connection is open when a call has returned or between
\* calls.
C15_NoConnectionHeld ==
    connections = 0

\* C18: after a bulk upload that completes without an exception, the
\* number in the "N transactions imported successfully!" message equals the
\* number of records that upload added to the store; a row whose insert was
\* refused is not counted.
C18_ReportedCountIsAddedCount ==
    [][last'.op = "bulk_upload_excel" =>
         last'.ret = Cardinality(transactions' \ transactions)]_vars

\* C16: calls of two callers that overlap are serialized by the store:
\* what get_balance or get_monthly_summary returns, two statements though
\* they run, is the answer of one state the store was in between the call
\* and its return; a write that
\* commits between the income query and the expense query cannot make the
\* call return a value that fits no state of the store.
C16_ResultFitsOneState ==
    (other.pc = "done" /\ other.op \in {"get_balance", "get_monthly_summary"})
        => \E a \in other.seen : other.ret = a[other.op]

\* C17: when one update_transaction of a stored id commits while another
\* update_transaction of the same id is under way, the record ends up as
\* the two applied one after the other in commit order: a column the later
\* one supplies holds its value, a column only the earlier one supplies
\* keeps the earlier value, the other columns stay as they were, and both
\* calls return True.
C17_UpdatesApplyInCommitOrder ==
    [][(/\ other.pc = "first"
        /\ other.op = "update_transaction"
        /\ other'.pc = "done"
        /\ ~IsNone(other.before)
        /\ Len(other.writes) = 1
        /\ other.writes[1].op = "update_transaction"
        /\ other.writes[1].ret = TRUE
        /\ other.writes[1].args.transaction_id = other.args.transaction_id)
       =>
         LET earlier == other.writes[1].args
             later == other.args
             old == Val(other.before)
             new == RowIn(transactions', later.transaction_id)
         IN /\ other'.ret = TRUE
            /\ Cardinality({r \in transactions' :
                                r.id = later.transaction_id}) = 1
            /\ \A c \in {"amount", "type", "remarks", "date"} :
                  new[c] = IF ~IsNone(later[c]) THEN Val(later[c])
                           ELSE IF ~IsNone(earlier[c]) THEN Val(earlier[c])
                           ELSE old[c]
            /\ new.created_at = old.created_at]_vars

\* An update that supplies type and remarks has committed after an update
\* of the same record that supplied amount and type committed during it:
\* the record holds the earlier amount and the later type and remarks.
C17_Witness ==
    /\ other.pc = "done"
    /\ other.op = "update_transaction"
    /\ other.ret = TRUE
    /\ other.args.type = Some("income")
    /\ other.args.remarks = Some("Lunch")
    /\ Len(other.writes) = 1
    /\ other.writes[1].op = "update_transaction"
    /\ other.writes[1].ret = TRUE
    /\ other.writes[1].args.transaction_id = other.args.transaction_id
    /\ other.writes[1].args.amount = Some(0)
    /\ other.writes[1].args.type = Some("expense")
    /\ Val(other.before).amount = 50
    /\ RowOf(other.args.transaction_id).amount = 0
    /\ RowOf(other.args.transaction_id).type = "income"
    /\ RowOf(other.args.transaction_id).remarks = "Lunch"

====
